---- MODULE Spec2Model ----
(***************************************************************************)
(* Model of src/index.tsx: a chat client that streams a model reply,       *)
(* classifies the finished reply (plain text, image directive, diagram)    *)
(* and renders diagrams as SVG.                                            *)
(*                                                                         *)
(* JavaScript strings are modelled as sequences of atoms.  An atom is a    *)
(* piece of text that no operation of the program looks inside: a word, a  *)
(* whole JSON document, a digit, the dot, the newline, a code fence.       *)
(* Concatenation is \o, the empty string is << >>.                         *)
(***************************************************************************)
EXTENDS Integers, Sequences, FiniteSets, TLC

\* ------------------------------------------------------------------------
\* Bounds of the model
\* ------------------------------------------------------------------------
MaxTurns == 2
MaxFragments == 3
MaxReplyFragments == 3
MaxComponents == 2
MaxConnections == 2

\* ------------------------------------------------------------------------
\* JavaScript values (what JSON.parse produces, plus undefined and NaN)
\* ------------------------------------------------------------------------
Undefined == [t |-> "undefined"]
Null == [t |-> "null"]
NaN == [t |-> "NaN"]
\* A number is v / 10^e, kept normalised (no trailing zero in the fraction).
RECURSIVE Norm(_, _)
Norm(v, e) ==
  IF e > 0 /\ v % 10 = 0 THEN Norm(v \div 10, e - 1)
  ELSE [t |-> "number", v |-> v, e |-> e]
Num(n) == [t |-> "number", v |-> n, e |-> 0]
Str(s) == [t |-> "string", v |-> s]
Arr(a) == [t |-> "array", v |-> a]
Obj(r) == [t |-> "object", v |-> r]

RECURSIVE Pow10(_)
Pow10(k) == IF k = 0 THEN 1 ELSE 10 * Pow10(k - 1)

\* JavaScript truthiness (the test of `if (v)`, `a && b`, `!v`).
Truthy(j) ==
  CASE j.t = "undefined" -> FALSE
    [] j.t = "null" -> FALSE
    [] j.t = "NaN" -> FALSE
    [] j.t = "boolean" -> j.v
    [] j.t = "number" -> j.v # 0
    [] j.t = "string" -> j.v # << >>
    [] OTHER -> TRUE

\* Property read `o.k` on a value that is not null or undefined.
Get(o, k) ==
  IF o.t = "object" /\ k \in DOMAIN o.v THEN o.v[k] ELSE Undefined

\* `o.k` throws a TypeError when o is null or undefined.
Nullish(j) == j.t \in {"undefined", "null"}

\* `a === "literal"`.
StrictEqStr(a, s) == a.t = "string" /\ a.v = s

\* ToNumber of the values that occur as coordinates.
ToNumber(j) ==
  CASE j.t = "number" -> j
    [] j.t = "null" -> Num(0)
    [] j.t = "boolean" -> Num(IF j.v THEN 1 ELSE 0)
    [] OTHER -> NaN

Max(a, b) == IF a >= b THEN a ELSE b

\* `a + b` and `a - n` on coordinates (numbers, or absent: NaN).
JsAdd(a, b) ==
  LET x == ToNumber(a)
      y == ToNumber(b)
  IN IF x.t = "NaN" \/ y.t = "NaN" THEN NaN
     ELSE LET e == Max(x.e, y.e)
          IN Norm(x.v * Pow10(e - x.e) + y.v * Pow10(e - y.e), e)

\* Template-literal / String() conversion of the values that reach it.
JsToString(j) ==
  CASE j.t = "string" -> j.v
    [] j.t = "number" ->
         IF j.e = 0 THEN <<ToString(j.v)>>
         ELSE <<ToString(j.v), "e-", ToString(j.e)>>
    [] OTHER -> <<j.t>>

\* ------------------------------------------------------------------------
\* Strings: split('.') and parseFloat
\* ------------------------------------------------------------------------
Dot == "."
Digits == {"0", "1", "2", "3", "4", "5", "6", "7", "8", "9"}
DigitValue(c) ==
  CASE c = "0" -> 0 [] c = "1" -> 1 [] c = "2" -> 2 [] c = "3" -> 3
    [] c = "4" -> 4 [] c = "5" -> 5 [] c = "6" -> 6 [] c = "7" -> 7
    [] c = "8" -> 8 [] c = "9" -> 9

\* s.split('.') : the pieces between the dots, in order (at least one).
RECURSIVE SplitFrom(_, _, _)
SplitFrom(s, i, cur) ==
  IF i > Len(s) THEN <<cur>>
  ELSE IF s[i] = Dot THEN <<cur>> \o SplitFrom(s, i + 1, << >>)
  ELSE SplitFrom(s, i + 1, Append(cur, s[i]))
Split(s) == SplitFrom(s, 1, << >>)

\* Number of leading digits of s from position i.
RECURSIVE DigitRun(_, _)
DigitRun(s, i) ==
  IF i <= Len(s) /\ s[i] \in Digits THEN 1 + DigitRun(s, i + 1) ELSE 0

\* Value of the digits s[i .. i+n-1].
RECURSIVE DigitsValue(_, _, _)
DigitsValue(s, i, n) ==
  IF n = 0 THEN 0
  ELSE DigitsValue(s, i, n - 1) * 10 + DigitValue(s[i + n - 1])

\* parseFloat(s): optional sign, digits, optional fraction; the longest such
\* prefix; NaN when it holds no digit.  (Exponents and "Infinity" do not
\* occur in the modelled terminal names.)
parseFloat(s) ==
  LET signed == Len(s) >= 1 /\ s[1] \in {"-", "+"}
      neg == signed /\ s[1] = "-"
      i0 == IF signed THEN 2 ELSE 1
      n1 == DigitRun(s, i0)
      hasDot == i0 + n1 <= Len(s) /\ s[i0 + n1] = Dot
      n2 == IF hasDot THEN DigitRun(s, i0 + n1 + 1) ELSE 0
      mant == DigitsValue(s, i0, n1) * Pow10(n2)
                + DigitsValue(s, i0 + n1 + 1, n2)
  IN IF n1 + n2 = 0 THEN NaN
     ELSE Norm(IF neg THEN 0 - mant ELSE mant, n2)

\* ------------------------------------------------------------------------
\* getTerminalCoords (src/index.tsx 429-455)
\* ------------------------------------------------------------------------
Point(px, py) == Obj([x |-> px, y |-> py])

\* The nine component kinds of ComponentType.
ComponentTypes ==
  {"battery", "resistor", "led", "switch",
   "generator", "transformer", "bus", "breaker", "load"}

\* A two-terminal kind that resolves its two names and nothing else.
NamedOnly(terminal, first, p1, second, p2) ==
  IF StrictEqStr(terminal, first) THEN p1
  ELSE IF StrictEqStr(terminal, second) THEN p2
  ELSE Null

\* Variant of terminalOfKind: a terminal name the kind does not list
\* resolves to null.
terminalOfKind_strict(component, terminal) ==
  LET x == Get(component, "x")
      y == Get(component, "y")
      type == Get(component, "type")
  IN CASE StrictEqStr(type, <<"battery">>) ->
            NamedOnly(terminal, <<"positive">>, Point(x, JsAdd(y, Num(-20))),
                      <<"negative">>, Point(x, JsAdd(y, Num(20))))
       [] StrictEqStr(type, <<"resistor">>) ->
            NamedOnly(terminal, <<"in">>, Point(JsAdd(x, Num(-30)), y),
                      <<"out">>, Point(JsAdd(x, Num(30)), y))
       [] StrictEqStr(type, <<"led">>) ->
            NamedOnly(terminal, <<"anode">>, Point(JsAdd(x, Num(-25)), y),
                      <<"cathode">>, Point(JsAdd(x, Num(25)), y))
       [] StrictEqStr(type, <<"switch">>) ->
            NamedOnly(terminal, <<"in">>, Point(JsAdd(x, Num(-30)), y),
                      <<"out">>, Point(JsAdd(x, Num(30)), y))
       [] StrictEqStr(type, <<"generator">>) ->
            NamedOnly(terminal, <<"out">>, Point(x, JsAdd(y, Num(30))),
                      <<"out">>, Null)
       [] StrictEqStr(type, <<"transformer">>) ->
            NamedOnly(terminal, <<"primary">>, Point(x, JsAdd(y, Num(-30))),
                      <<"secondary">>, Point(x, JsAdd(y, Num(30))))
       [] StrictEqStr(type, <<"bus">>) ->
            LET busOffset ==
                  IF terminal.t = "string" THEN parseFloat(terminal.v)
                  ELSE NaN
            IN IF busOffset.t = "NaN" THEN Null
               ELSE Point(JsAdd(x, busOffset), y)
       [] StrictEqStr(type, <<"breaker">>) ->
            NamedOnly(terminal, <<"in">>, Point(JsAdd(x, Num(-25)), y),
                      <<"out">>, Point(JsAdd(x, Num(25)), y))
       [] StrictEqStr(type, <<"load">>) ->
            NamedOnly(terminal, <<"in">>, Point(x, JsAdd(y, Num(-25))),
                      <<"in">>, Null)
       [] OTHER -> Null

\* The destructuring and the switch on the kind (431-454).  `component` is
\* truthy; `terminal` is a string value, or undefined when the endpoint
\* has no dot.
terminalOfKind(component, terminal) ==
  LET x == Get(component, "x")
      y == Get(component, "y")
      type == Get(component, "type")
  IN CASE StrictEqStr(type, <<"battery">>) ->
            IF StrictEqStr(terminal, <<"positive">>)
            THEN Point(x, JsAdd(y, Num(-20)))
            ELSE Point(x, JsAdd(y, Num(20)))
       [] StrictEqStr(type, <<"resistor">>) ->
            IF StrictEqStr(terminal, <<"in">>)
            THEN Point(JsAdd(x, Num(-30)), y)
            ELSE Point(JsAdd(x, Num(30)), y)
       [] StrictEqStr(type, <<"led">>) ->
            IF StrictEqStr(terminal, <<"anode">>)
            THEN Point(JsAdd(x, Num(-25)), y)
            ELSE Point(JsAdd(x, Num(25)), y)
       [] StrictEqStr(type, <<"switch">>) ->
            IF StrictEqStr(terminal, <<"in">>)
            THEN Point(JsAdd(x, Num(-30)), y)
            ELSE Point(JsAdd(x, Num(30)), y)
       [] StrictEqStr(type, <<"generator">>) ->
            Point(x, JsAdd(y, Num(30)))
       [] StrictEqStr(type, <<"transformer">>) ->
            IF StrictEqStr(terminal, <<"primary">>)
            THEN Point(x, JsAdd(y, Num(-30)))
            ELSE Point(x, JsAdd(y, Num(30)))
       [] StrictEqStr(type, <<"bus">>) ->
            LET busOffset ==
                  IF terminal.t = "string" THEN parseFloat(terminal.v)
                  ELSE NaN
            IN Point(JsAdd(x, IF busOffset.t = "NaN" THEN Num(0)
                              ELSE busOffset), y)
       [] StrictEqStr(type, <<"breaker">>) ->
            IF StrictEqStr(terminal, <<"in">>)
            THEN Point(JsAdd(x, Num(-25)), y)
            ELSE Point(JsAdd(x, Num(25)), y)
       [] StrictEqStr(type, <<"load">>) ->
            Point(x, JsAdd(y, Num(-25)))
       [] OTHER -> Null

\* Variant of getTerminalCoords: a missing component resolves to the
\* origin instead of null.
getTerminalCoords_origin(component, terminal) ==
  IF ~Truthy(component) THEN Point(Num(0), Num(0))
  ELSE terminalOfKind(component, terminal)

\* getTerminalCoords(component, terminal) (429-455): `component` is
\* undefined when the id is not in the map.
getTerminalCoords(component, terminal) ==
  IF ~Truthy(component) THEN Null
  ELSE terminalOfKind(component, terminal)

\* ------------------------------------------------------------------------
\* renderDiagram (src/index.tsx 262-324)
\* ------------------------------------------------------------------------
\* Outcome of a call that threw: nothing was attached to the container.
Threw == [threw |-> TRUE]

\* Map.prototype.set on a list of entries: an existing key keeps its place
\* and takes the new value, a new key is appended.
MapSet(map, key, value) ==
  IF \E i \in 1..Len(map) : map[i].key = key
  THEN [i \in 1..Len(map) |->
          IF map[i].key = key THEN [key |-> key, value |-> value]
          ELSE map[i]]
  ELSE Append(map, [key |-> key, value |-> value])

\* Map.prototype.get: the value stored under the key, or undefined.
MapGet(map, key) ==
  IF \E i \in 1..Len(map) : map[i].key = key
  THEN map[CHOOSE i \in 1..Len(map) : map[i].key = key].value
  ELSE Undefined

\* new Map(data.components.map(c => [c.id, c])); `c.id` throws on null.
RECURSIVE componentMap(_, _, _)
componentMap(components, i, map) ==
  IF i > Len(components) THEN [threw |-> FALSE, map |-> map]
  ELSE IF Nullish(components[i]) THEN Threw
  ELSE componentMap(components, i + 1,
                    MapSet(map, Get(components[i], "id"), components[i]))

\* The second piece of split('.'), or undefined when there is no dot.
SecondPart(parts) == IF Len(parts) >= 2 THEN Str(parts[2]) ELSE Undefined

\* `v.toString()` throws on null and undefined.
ToStringThrows(v) == Nullish(v)

\* The wire loop (276-290).  `svg` is the list of children appended so far;
\* field `src` records which connection a line was drawn for.
RECURSIVE drawWires(_, _, _, _)
drawWires(connections, i, map, svg) ==
  IF i > Len(connections) THEN [threw |-> FALSE, svg |-> svg]
  ELSE
    LET conn == connections[i] IN
    IF Nullish(conn) THEN Threw
    ELSE IF Get(conn, "from").t # "string" THEN Threw
    ELSE IF Get(conn, "to").t # "string" THEN Threw
    ELSE
      LET fromParts == Split(Get(conn, "from").v)
          toParts == Split(Get(conn, "to").v)
          fromCoords == getTerminalCoords(MapGet(map, Str(fromParts[1])),
                                          SecondPart(fromParts))
          toCoords == getTerminalCoords(MapGet(map, Str(toParts[1])),
                                        SecondPart(toParts))
      IN IF Truthy(fromCoords) /\ Truthy(toCoords)
         THEN IF \/ ToStringThrows(fromCoords.v.x)
                 \/ ToStringThrows(fromCoords.v.y)
                 \/ ToStringThrows(toCoords.v.x)
                 \/ ToStringThrows(toCoords.v.y)
              THEN Threw
              ELSE drawWires(connections, i + 1, map,
                     Append(svg, [tag |-> "line",
                                  x1 |-> fromCoords.v.x, y1 |-> fromCoords.v.y,
                                  x2 |-> toCoords.v.x, y2 |-> toCoords.v.y,
                                  class |-> "wire", src |-> i]))
         ELSE drawWires(connections, i + 1, map, svg)

\* The symbol chosen by the switch on component.type (298-308).
componentSvg(component) ==
  LET type == Get(component, "type")
      state == Get(component, "state")
      width == Get(component, "width")
  IN IF type.t = "string" /\ Len(type.v) = 1 /\ type.v[1] \in ComponentTypes
     THEN CASE type.v[1] = "switch" ->
                 [shape |-> "switch",
                  rotation |-> IF state.t = "undefined"
                                  \/ StrictEqStr(state, <<"open">>)
                               THEN -30 ELSE 0]
            [] type.v[1] = "bus" ->
                 [shape |-> "bus",
                  width |-> IF width.t = "undefined" THEN Num(100) ELSE width]
            [] OTHER -> [shape |-> type.v[1]]
     ELSE [shape |-> "none"]

\* The component loop (293-320); `component.x` throws on null.
RECURSIVE drawComponents(_, _, _)
drawComponents(components, j, svg) ==
  IF j > Len(components) THEN [threw |-> FALSE, svg |-> svg]
  ELSE IF Nullish(components[j]) THEN Threw
  ELSE drawComponents(components, j + 1,
         Append(svg, [tag |-> "g",
                      translate |-> <<Get(components[j], "x"),
                                      Get(components[j], "y")>>,
                      symbol |-> componentSvg(components[j]),
                      label |-> Get(components[j], "label"),
                      src |-> j]))

\* Variant of svgChildren: the component loop runs before the wire loop.
svgChildren_componentsFirst(components, connections, map) ==
  LET g == drawComponents(components, 1, << >>) IN
  IF g.threw THEN Threw
  ELSE drawWires(connections, 1, map, g.svg)

\* The two loops of renderDiagram in program order (275-320): the children
\* appended to the svg element, wires first.
svgChildren(components, connections, map) ==
  LET w == drawWires(connections, 1, map, << >>) IN
  IF w.threw THEN Threw
  ELSE drawComponents(components, 1, w.svg)

\* What `for (const conn of v)` iterates: the elements of an array, the
\* characters of a string; anything else is not iterable.
Iterable(v) == v.t \in {"array", "string"}
Elements(v) ==
  IF v.t = "array" THEN v.v ELSE [i \in 1..Len(v.v) |-> Str(<<v.v[i]>>)]

\* The end of renderDiagram (322-323): the diagram-container node that is
\* appended to the container, holding the svg with the children `g.svg`.
attachSvg(data, g) ==
  IF g.threw THEN Threw
  ELSE [threw |-> FALSE,
        node |-> [tag |-> "div", class |-> "diagram-container",
                  viewBox |-> <<Get(data, "width"), Get(data, "height")>>,
                  singleLine |-> StrictEqStr(Get(data, "diagramType"),
                                             <<"single-line">>),
                  svg |-> g.svg]]

\* renderDiagram from line 275 on, `m` being the outcome of line 273.
drawMapped(data, m) ==
  IF m.threw THEN Threw
  ELSE IF ~Iterable(Get(data, "connections")) THEN Threw
  ELSE attachSvg(data, svgChildren(Get(data, "components").v,
                                   Elements(Get(data, "connections")),
                                   m.map))

\* renderDiagram(data, container): the diagram-container node appended to
\* the container, or Threw.  `data` is not null (the caller tested it).
renderDiagram(data) ==
  IF Get(data, "components").t # "array" THEN Threw
  ELSE drawMapped(data, componentMap(Get(data, "components").v, 1, << >>))

\* ------------------------------------------------------------------------
\* State
\* ------------------------------------------------------------------------
VARIABLES
  chat,         \* chatContainer: the message elements, in document order
  form,         \* the `disabled` flags of promptInput, formButton, fileInput
  turns,        \* the invocations of handleFormSubmit, in order of submission
  nextId,       \* identity of the next element addMessage creates
  rdData,       \* renderDiagram: its argument `data`
  rdResult,     \* renderDiagram: what the call produced
  tcComponent,  \* getTerminalCoords: its argument `component`
  tcTerminal,   \* getTerminalCoords: its argument `terminal`
  tcResult,     \* getTerminalCoords: the value returned
  tcCanvas      \* renderDiagram of the one-connection diagram of the probe

vars == <<chat, form, turns, nextId, rdData, rdResult,
          tcComponent, tcTerminal, tcResult, tcCanvas>>
chatVars == <<chat, form, turns, nextId>>
rdVars == <<rdData, rdResult>>
tcVars == <<tcComponent, tcTerminal, tcResult, tcCanvas>>

\* A call that has not been made yet.
Pending == [t |-> "pending"]

BoundedSeq(S, n) == UNION {[1..k -> S] : k \in 0..n}

\* ------------------------------------------------------------------------
\* Diagram inputs (the DiagramData wire format, src/index.tsx 13-34)
\* ------------------------------------------------------------------------
Component(id, type, x, y, label) ==
  Obj([id |-> Str(<<id>>), type |-> Str(<<type>>),
       x |-> Num(x), y |-> Num(y), label |-> Str(<<label>>)])

Connection(from, to) == Obj([from |-> Str(from), to |-> Str(to)])

DiagramData(components, connections) ==
  Obj([width |-> Num(200), height |-> Num(100),
       components |-> Arr(components), connections |-> Arr(connections)])

\* Components a diagram is drawn from: known kinds, a kind outside
\* ComponentType, and a second component that reuses the id "b1".
ComponentCatalogue ==
  {Component("b1", "battery", 50, 50, "V1"),
   Component("r1", "resistor", 150, 50, "R1"),
   Component("bus1", "bus", 100, 120, "Bus"),
   Component("c1", "capacitor", 20, 20, "C1"),
   Component("b1", "led", 10, 10, "D1")}

\* Connections a diagram is drawn from.  "zz" and "yy" name no component.
ConnectionCatalogue ==
  {Connection(<<"b1", ".", "positive">>, <<"r1", ".", "in">>),
   Connection(<<"bus1", ".", "-", "4", "0">>, <<"b1", ".", "out">>),
   Connection(<<"zz", ".", "in">>, <<"b1", ".", "negative">>),
   Connection(<<"r1", ".", "out">>, <<"zz", ".", "out">>),
   Connection(<<"zz", ".", "a">>, <<"yy", ".", "b">>),
   Connection(<<"c1", ".", "in">>, <<"r1">>)}

DiagramInputs ==
  {DiagramData(cs, ks) :
     cs \in BoundedSeq(ComponentCatalogue, MaxComponents),
     ks \in BoundedSeq(ConnectionCatalogue, MaxConnections)}

\* ------------------------------------------------------------------------
\* Terminal-resolution inputs
\* ------------------------------------------------------------------------
\* One component of every kind, one of an unknown kind, and no component.
TerminalComponents ==
  {Component("b1", "battery", 50, 50, "V1"),
   Component("r1", "resistor", 150, 50, "R1"),
   Component("d1", "led", 10, 10, "D1"),
   Component("s1", "switch", 60, 10, "S1"),
   Component("g1", "generator", 100, 200, "G1"),
   Component("t1", "transformer", 100, 160, "T1"),
   Component("bus1", "bus", 100, 120, "Bus"),
   Component("k1", "breaker", 100, 90, "CB"),
   Component("l1", "load", 100, 10, "L1"),
   Component("c1", "capacitor", 20, 20, "C1"),
   Undefined}

TerminalNames ==
  {Str(<<"positive">>), Str(<<"negative">>), Str(<<"in">>), Str(<<"out">>),
   Str(<<"anode">>), Str(<<"cathode">>), Str(<<"primary">>),
   Str(<<"secondary">>), Str(<<"bogus">>), Str(<< >>),
   Str(<<"-", "4", "0">>), Str(<<"2", "5">>), Str(<<"1", "2", "a">>),
   Str(<<"-", "4", "0", ".", "5">>),
   Undefined}

\* The endpoint string "<id>.<terminal>" of a probe ("zz" for no component;
\* no dot and no terminal when the terminal is undefined).
ProbeEndpoint(component, terminal) ==
  (IF component.t = "object" THEN Get(component, "id").v ELSE <<"zz">>)
    \o (IF terminal.t = "string" THEN <<Dot>> \o terminal.v ELSE << >>)

\* The diagram that holds the probed component and one connection whose two
\* ends are the probed endpoint.
ProbeDiagram(component, terminal) ==
  DiagramData(IF component.t = "object" THEN <<component>> ELSE << >>,
              <<Connection(ProbeEndpoint(component, terminal),
                           ProbeEndpoint(component, terminal))>>)

\* ------------------------------------------------------------------------
\* Initial state of the page (initializeApp succeeded, 63-88)
\* ------------------------------------------------------------------------
P(text) == [tag |-> "p", text |-> text, italic |-> FALSE]

WelcomeText == <<"welcome">>

ChatInit ==
  /\ chat = <<[id |-> 0, sender |-> "model", style |-> "", turn |-> 0,
               children |-> <<P(WelcomeText)>>]>>
  /\ form = [promptInput |-> FALSE, formButton |-> FALSE, fileInput |-> FALSE]
  /\ turns = << >>
  /\ nextId = 1

RenderIdle == rdData = Null /\ rdResult = Pending

TerminalIdle ==
  /\ tcComponent = Undefined
  /\ tcTerminal = Undefined
  /\ tcResult = Pending
  /\ tcCanvas = Pending

\* ------------------------------------------------------------------------
\* Reply text: atoms, JSON documents, JSON.parse and the fence pattern
\* ------------------------------------------------------------------------
\* The newline, the three backquotes of a code fence, and the three
\* backquotes followed by the word json.
NL == "\n"
Fence == "<fence>"
FenceJson == "<fence>json"

DocImage ==
  "{\"action\":\"generate_image\",\"prompt\":\"a red barn\"}"
DocImageNumberPrompt ==
  "{\"action\":\"generate_image\",\"prompt\":123}"
DocImageEmptyPrompt ==
  "{\"action\":\"generate_image\",\"prompt\":\"\"}"
DocImageAndDiagram ==
  "{\"action\":\"generate_image\",\"prompt\":\"a barn\",\"components\":[],\"connections\":[]}"
DocDiagram ==
  "{\"width\":200,\"height\":100,\"components\":[{\"id\":\"b1\",\"type\":\"battery\",\"x\":50,\"y\":50,\"label\":\"V1\"}],\"connections\":[]}"
DocDiagramWired ==
  "{\"width\":200,\"height\":100,\"components\":[b1 battery,r1 resistor],\"connections\":[b1.positive-r1.in,zz.out-r1.out]}"
DocEmptyDiagram ==
  "{\"components\":[],\"connections\":[]}"
DocNullConnections ==
  "{\"components\":[],\"connections\":null}"
DocComponentsNotArray ==
  "{\"components\":{},\"connections\":[]}"
DocConnectionNoEnds ==
  "{\"components\":[],\"connections\":[{}]}"
DocOther ==
  "{\"answer\":42}"
DocNull ==
  "null"

\* The value JSON.parse produces for each document.
JsonValue(doc) ==
  CASE doc = DocImage ->
         Obj([action |-> Str(<<"generate_image">>),
              prompt |-> Str(<<"a red barn">>)])
    [] doc = DocImageNumberPrompt ->
         Obj([action |-> Str(<<"generate_image">>), prompt |-> Num(123)])
    [] doc = DocImageEmptyPrompt ->
         Obj([action |-> Str(<<"generate_image">>), prompt |-> Str(<< >>)])
    [] doc = DocImageAndDiagram ->
         Obj([action |-> Str(<<"generate_image">>),
              prompt |-> Str(<<"a barn">>),
              components |-> Arr(<< >>), connections |-> Arr(<< >>)])
    [] doc = DocDiagram ->
         DiagramData(<<Component("b1", "battery", 50, 50, "V1")>>, << >>)
    [] doc = DocDiagramWired ->
         DiagramData(<<Component("b1", "battery", 50, 50, "V1"),
                       Component("r1", "resistor", 150, 50, "R1")>>,
                     <<Connection(<<"b1", ".", "positive">>,
                                  <<"r1", ".", "in">>),
                       Connection(<<"zz", ".", "out">>,
                                  <<"r1", ".", "out">>)>>)
    [] doc = DocEmptyDiagram ->
         Obj([components |-> Arr(<< >>), connections |-> Arr(<< >>)])
    [] doc = DocNullConnections ->
         Obj([components |-> Arr(<< >>), connections |-> Null])
    [] doc = DocComponentsNotArray ->
         Obj([components |-> Obj([x \in {} |-> Null]),
              connections |-> Arr(<< >>)])
    [] doc = DocConnectionNoEnds ->
         Obj([components |-> Arr(<< >>),
              connections |-> Arr(<<Obj([x \in {} |-> Null])>>)])
    [] doc = DocOther -> Obj([answer |-> Num(42)])
    [] doc = DocNull -> Null

JsonDocs ==
  {DocImage, DocImageNumberPrompt, DocImageEmptyPrompt, DocImageAndDiagram,
   DocDiagram, DocDiagramWired, DocEmptyDiagram, DocNullConnections,
   DocComponentsNotArray, DocConnectionNoEnds, DocOther, DocNull}

\* JSON.parse(text): succeeds when the text is one JSON document with
\* nothing but whitespace around it, and throws otherwise.
JSONParse(text) ==
  LET body == SelectSeq(text, LAMBDA a : a # NL)
  IN IF Len(body) = 1 /\ body[1] \in JsonDocs
     THEN [ok |-> TRUE, value |-> JsonValue(body[1])]
     ELSE [ok |-> FALSE]

\* text.match(/```json\n([\s\S]*?)\n```/): the leftmost opening fence that a
\* closing "\n```" follows, and the text up to the nearest such closing.
FenceMatch(text) ==
  LET Closes(j) == /\ j + 1 <= Len(text)
                   /\ text[j] = NL
                   /\ text[j + 1] \in {Fence, FenceJson}
      Opens(i) == /\ i + 1 <= Len(text)
                  /\ text[i] = FenceJson
                  /\ text[i + 1] = NL
                  /\ \E j \in (i + 2)..Len(text) : Closes(j)
      starts == {i \in 1..Len(text) : Opens(i)}
  IN IF starts = {} THEN [found |-> FALSE]
     ELSE LET i == CHOOSE a \in starts : \A b \in starts : a <= b
              j == CHOOSE a \in (i + 2)..Len(text) :
                     /\ Closes(a)
                     /\ \A b \in (i + 2)..Len(text) : Closes(b) => a <= b
          IN [found |-> TRUE, group |-> SubSeq(text, i + 2, j - 1)]

\* ------------------------------------------------------------------------
\* Message elements (addMessage 523-543, renderAsText 107-114)
\* ------------------------------------------------------------------------
Loading == [tag |-> "div", class |-> "loading"]

ErrorRequest == <<"request failed">>
ErrorImage == <<"image generation failed">>

\* addMessage(sender, text) without an image: the chat with the new element.
\* `turn` records the invocation of handleFormSubmit that created it.
addMessage(c, id, turn, sender, text) ==
  Append(c, [id |-> id, sender |-> sender, style |-> "", turn |-> turn,
             children |-> IF text # << >> THEN <<P(text)>> ELSE << >>])

\* displayError(message) (509-513).
displayError(c, id, turn, message) ==
  Append(c, [id |-> id, sender |-> "model", style |-> "error", turn |-> turn,
             children |-> <<P(message)>>])

InChat(c, id) == \E i \in 1..Len(c) : c[i].id = id
ElementOf(c, id) == c[CHOOSE i \in 1..Len(c) : c[i].id = id]

\* The chat with the children of element `id` replaced (a detached element
\* is not in the chat and nothing shows).
SetChildren(c, id, children) ==
  [i \in 1..Len(c) |->
     IF c[i].id = id THEN [c[i] EXCEPT !.children = children] ELSE c[i]]

\* element.remove().
RemoveElement(c, id) == SelectSeq(c, LAMBDA e : e.id # id)

\* element.querySelector('p'): index of the first p child, 0 when none.
FirstP(children) ==
  IF \E i \in 1..Len(children) : children[i].tag = "p"
  THEN CHOOSE i \in 1..Len(children) :
         /\ children[i].tag = "p"
         /\ \A k \in 1..(i - 1) : children[k].tag # "p"
  ELSE 0

\* Variant of renderAsText: no paragraph is created when none exists.
renderAsText_noCreate(text, children) ==
  IF FirstP(children) = 0 THEN children
  ELSE [children EXCEPT ![FirstP(children)].text = text]

\* renderAsText(text, element): the children of the element afterwards.
renderAsText(text, children) ==
  IF FirstP(children) = 0 THEN Append(children, P(text))
  ELSE [children EXCEPT ![FirstP(children)].text = text]

\* `const p = element.querySelector('p'); if (p) p.remove();` (184-185).
RemoveFirstP(children) ==
  IF FirstP(children) = 0 THEN children
  ELSE SubSeq(children, 1, FirstP(children) - 1)
         \o SubSeq(children, FirstP(children) + 1, Len(children))

RemoveChild(children, node) == SelectSeq(children, LAMBDA n : n # node)

\* Variant of setFormState: the submit button is left enabled.
setFormState_buttonEnabled(isLoading) ==
  [promptInput |-> isLoading, formButton |-> FALSE, fileInput |-> isLoading]

\* setFormState(isLoading) (549-553).
setFormState(isLoading) ==
  [promptInput |-> isLoading, formButton |-> isLoading,
   fileInput |-> isLoading]

\* ------------------------------------------------------------------------
\* handleFormSubmit after the stream (165-194) and handleImageGeneration
\* ------------------------------------------------------------------------
\* `fullResponse += chunk.text` with the text replaced instead of appended.
Accumulate_replace(fullResponse, text) == text

\* `fullResponse += chunk.text` (160).
Accumulate(fullResponse, text) == fullResponse \o text

\* The value of parsedJson after lines 166-181, and whether the inner catch
\* (177-178) ran.
parseResponse(fullResponse) ==
  LET whole == JSONParse(fullResponse)
      jsonMatch == FenceMatch(fullResponse)
  IN IF whole.ok THEN [parsedJson |-> whole.value, innerFailed |-> FALSE]
     ELSE IF jsonMatch.found /\ jsonMatch.group # << >>
     THEN LET inner == JSONParse(jsonMatch.group)
          IN IF inner.ok
             THEN [parsedJson |-> inner.value, innerFailed |-> FALSE]
             ELSE [parsedJson |-> Null, innerFailed |-> TRUE]
     ELSE [parsedJson |-> Null, innerFailed |-> FALSE]

\* `parsedJson.action === 'generate_image' && parsedJson.prompt` (187).
IsImageDirective(parsedJson) ==
  /\ StrictEqStr(Get(parsedJson, "action"), <<"generate_image">>)
  /\ Truthy(Get(parsedJson, "prompt"))

\* Variant of IsDiagram: both fields must be arrays.
IsDiagram_arrays(parsedJson) ==
  /\ Get(parsedJson, "components").t = "array"
  /\ Get(parsedJson, "connections").t = "array"

\* `parsedJson.components && parsedJson.connections` (189).
IsDiagram(parsedJson) ==
  /\ Truthy(Get(parsedJson, "components"))
  /\ Truthy(Get(parsedJson, "connections"))

StatusText(prompt) ==
  [tag |-> "p", text |-> <<"generating image for: ">> \o JsToString(prompt),
   italic |-> TRUE]

\* handleImageGeneration up to its await (212-227): the status line and the
\* loading indicator are appended.
imageRequested(children, prompt) ==
  Append(Append(children, StatusText(prompt)), Loading)

\* The generated image (237-245).
Img(prompt) ==
  [tag |-> "img", src |-> "data:image/jpeg;base64", alt |-> JsToString(prompt)]

\* The diagram branch (190): `r` is the outcome of renderDiagram.
diagramBranch(cleared, r) ==
  [children |-> IF r.threw THEN cleared ELSE Append(cleared, r.node),
   outcome |-> "diagram", threw |-> r.threw, prompt |-> Undefined]

\* Lines 187-193 on a truthy parsedJson, `cleared` being the children of the
\* model message after lines 184-185: the children afterwards, the branch
\* taken, and whether renderDiagram threw.
renderParsed(parsedJson, fullResponse, cleared) ==
  IF IsImageDirective(parsedJson)
  THEN [children |-> imageRequested(cleared, Get(parsedJson, "prompt")),
        outcome |-> "image", threw |-> FALSE,
        prompt |-> Get(parsedJson, "prompt")]
  ELSE IF IsDiagram(parsedJson)
  THEN diagramBranch(cleared, renderDiagram(parsedJson))
  ELSE [children |-> renderAsText(fullResponse, cleared),
        outcome |-> "text", threw |-> FALSE, prompt |-> Undefined]

\* Lines 177-194, `r` being the outcome of lines 166-181.
afterParse(r, fullResponse, children) ==
  LET shown == IF r.innerFailed THEN renderAsText(fullResponse, children)
               ELSE children
  IN IF Truthy(r.parsedJson)
     THEN renderParsed(r.parsedJson, fullResponse, RemoveFirstP(shown))
     ELSE [children |-> shown, outcome |-> "text", threw |-> FALSE,
           prompt |-> Undefined]

\* Lines 165-194: everything handleFormSubmit does between the end of the
\* stream and its next await or its return.
postStream(fullResponse, children) ==
  afterParse(parseResponse(fullResponse), fullResponse, children)

\* Variant of catchBlock: the in-progress message stays in the chat.
catchBlock_keep(c, id, turn, msg) ==
  displayError(c, id, turn, ErrorRequest)

\* The catch block of handleFormSubmit (196-199).
catchBlock(c, id, turn, msg) ==
  RemoveElement(displayError(c, id, turn, ErrorRequest), msg)

\* ------------------------------------------------------------------------
\* handleFormSubmit as a process: one record of `turns` per invocation
\* ------------------------------------------------------------------------
\* pc: "awaitStream" (151), "streaming" (155), "awaitImage" (227), "done".
\* frags, classified, classifiedOn, outcome and caught are history: the
\* fragments received, how often and on what lines 165-194 ran, the branch
\* taken, and which error reached the catch block.
NewTurn(prompt, msg) ==
  [pc |-> "awaitStream", prompt |-> prompt, msg |-> msg,
   fullResponse |-> << >>, firstChunk |-> TRUE, imagePrompt |-> Undefined,
   frags |-> << >>, classified |-> 0, classifiedOn |-> << >>,
   outcome |-> "pending", caught |-> "none"]

RECURSIVE Flatten(_)
Flatten(ss) == IF ss = << >> THEN << >> ELSE Head(ss) \o Flatten(Tail(ss))

RECURSIVE SumLen(_)
SumLen(ts) ==
  IF ts = << >> THEN 0 ELSE Len(Head(ts).frags) + SumLen(Tail(ts))

\* The prompt typed by the user, after trim(): empty or not.
Prompts == {<< >>, <<"hi">>}

\* Fragments the transport delivers in the multi-turn specification.
TurnFragments ==
  {<< >>, <<"Hello">>, <<DocImage>>, <<DocDiagram>>,
   <<DocComponentsNotArray>>}

\* Fragments the transport delivers in the single-reply specification.
ReplyFragments ==
  {<< >>, <<"Hello">>, <<FenceJson, NL>>, <<NL, Fence>>}
    \cup {<<d>> : d \in JsonDocs}

\* The submit event (120-151).  The browser fires it only while the submit
\* button is enabled.  No file is attached.
handleFormSubmit(prompt, maxTurns) ==
  /\ ~form.formButton
  /\ Len(turns) < maxTurns
  /\ IF prompt = << >>
     THEN UNCHANGED chatVars
     ELSE /\ chat' = Append(addMessage(chat, nextId, Len(turns) + 1,
                                       "user", prompt),
                            [id |-> nextId + 1, sender |-> "model",
                             style |-> "", turn |-> Len(turns) + 1,
                             children |-> <<Loading>>])
          /\ nextId' = nextId + 2
          /\ form' = setFormState(TRUE)
          /\ turns' = Append(turns, NewTurn(prompt, nextId + 1))
  /\ UNCHANGED <<rdVars, tcVars>>

\* chat.sendMessageStream resolves (151-153).
StreamOpened(t) ==
  /\ turns[t].pc = "awaitStream"
  /\ turns' = [turns EXCEPT ![t].pc = "streaming",
                            ![t].fullResponse = << >>,
                            ![t].firstChunk = TRUE]
  /\ UNCHANGED <<chat, form, nextId, rdVars, tcVars>>

\* One iteration of the for-await loop (155-163).
Chunk(t, text, maxFragments) ==
  /\ turns[t].pc = "streaming"
  /\ SumLen(turns) < maxFragments
  /\ LET el == ElementOf(chat, turns[t].msg)
         kept == IF turns[t].firstChunk
                 THEN RemoveChild(el.children, Loading)
                 ELSE el.children
         full == Accumulate(turns[t].fullResponse, text)
     IN /\ chat' = SetChildren(chat, turns[t].msg, renderAsText(full, kept))
        /\ turns' = [turns EXCEPT ![t].fullResponse = full,
                                  ![t].firstChunk = FALSE,
                                  ![t].frags = Append(@, text)]
  /\ UNCHANGED <<form, nextId, rdVars, tcVars>>

\* The transport fails: sendMessageStream rejects or the iterator throws
\* (catch and finally, 196-203).
TransportError(t) ==
  /\ turns[t].pc \in {"awaitStream", "streaming"}
  /\ chat' = catchBlock(chat, nextId, t, turns[t].msg)
  /\ nextId' = nextId + 1
  /\ form' = setFormState(FALSE)
  /\ turns' = [turns EXCEPT ![t].pc = "done", ![t].caught = "transport"]
  /\ UNCHANGED <<rdVars, tcVars>>

\* What follows lines 165-194, `r` being their outcome: the catch block when
\* renderDiagram threw, the await of the image, or the return (200-203).
finishStream(t, r) ==
  LET shown == SetChildren(chat, turns[t].msg, r.children)
      seen == [turns EXCEPT ![t].classified = @ + 1,
                            ![t].classifiedOn = turns[t].fullResponse,
                            ![t].outcome = r.outcome,
                            ![t].imagePrompt = r.prompt]
  IN IF r.threw
     THEN /\ chat' = catchBlock(shown, nextId, t, turns[t].msg)
          /\ nextId' = nextId + 1
          /\ form' = setFormState(FALSE)
          /\ turns' = [seen EXCEPT ![t].pc = "done", ![t].caught = "fault"]
     ELSE IF r.outcome = "image"
     THEN /\ chat' = shown
          /\ turns' = [seen EXCEPT ![t].pc = "awaitImage"]
          /\ UNCHANGED <<form, nextId>>
     ELSE /\ chat' = shown
          /\ form' = setFormState(FALSE)
          /\ turns' = [seen EXCEPT ![t].pc = "done"]
          /\ UNCHANGED nextId

\* The stream ends (165-194, then 196-203 unless an image was requested).
StreamEnd(t) ==
  /\ turns[t].pc = "streaming"
  /\ finishStream(t, postStream(turns[t].fullResponse,
                                ElementOf(chat, turns[t].msg).children))
  /\ UNCHANGED <<rdVars, tcVars>>

\* ai.models.generateImages resolves (237-245, 252; then 200-203).
ImageGenerated(t) ==
  /\ turns[t].pc = "awaitImage"
  /\ chat' = SetChildren(chat, turns[t].msg, <<Img(turns[t].imagePrompt)>>)
  /\ form' = setFormState(FALSE)
  /\ turns' = [turns EXCEPT ![t].pc = "done"]
  /\ UNCHANGED <<nextId, rdVars, tcVars>>

\* ai.models.generateImages rejects (247-252; then 200-203).
ImageFailed(t) ==
  /\ turns[t].pc = "awaitImage"
  /\ chat' = displayError(SetChildren(chat, turns[t].msg, << >>),
                          nextId, t, ErrorImage)
  /\ nextId' = nextId + 1
  /\ form' = setFormState(FALSE)
  /\ turns' = [turns EXCEPT ![t].pc = "done", ![t].caught = "image"]
  /\ UNCHANGED <<rdVars, tcVars>>

Init == ChatInit /\ RenderIdle /\ TerminalIdle

\* Several turns, a small set of replies.
Next ==
  \/ \E prompt \in Prompts : handleFormSubmit(prompt, MaxTurns)
  \/ \E t \in 1..Len(turns) : StreamOpened(t)
  \/ \E t \in 1..Len(turns), text \in TurnFragments :
       Chunk(t, text, MaxFragments)
  \/ \E t \in 1..Len(turns) : TransportError(t)
  \/ \E t \in 1..Len(turns) : StreamEnd(t)
  \/ \E t \in 1..Len(turns) : ImageGenerated(t)
  \/ \E t \in 1..Len(turns) : ImageFailed(t)

Spec == Init /\ [][Next]_vars

\* One turn, every kind of reply.
NextReply ==
  \/ \E prompt \in Prompts : handleFormSubmit(prompt, 1)
  \/ \E t \in 1..Len(turns) : StreamOpened(t)
  \/ \E t \in 1..Len(turns), text \in ReplyFragments :
       Chunk(t, text, MaxReplyFragments)
  \/ \E t \in 1..Len(turns) : TransportError(t)
  \/ \E t \in 1..Len(turns) : StreamEnd(t)
  \/ \E t \in 1..Len(turns) : ImageGenerated(t)
  \/ \E t \in 1..Len(turns) : ImageFailed(t)

SpecReply == Init /\ [][NextReply]_vars

\* ------------------------------------------------------------------------
\* Specification of getTerminalCoords over its inputs
\* ------------------------------------------------------------------------
InitTerminal ==
  /\ ChatInit
  /\ RenderIdle
  /\ tcComponent \in TerminalComponents
  /\ tcTerminal \in TerminalNames
  /\ tcResult = Pending
  /\ tcCanvas = Pending

ResolveTerminal ==
  /\ tcResult = Pending
  /\ tcResult' = getTerminalCoords(tcComponent, tcTerminal)
  /\ UNCHANGED <<chatVars, rdVars, tcComponent, tcTerminal, tcCanvas>>

DrawProbe ==
  /\ tcCanvas = Pending
  /\ tcCanvas' = renderDiagram(ProbeDiagram(tcComponent, tcTerminal))
  /\ UNCHANGED <<chatVars, rdVars, tcComponent, tcTerminal, tcResult>>

NextTerminal == ResolveTerminal \/ DrawProbe

SpecTerminal == InitTerminal /\ [][NextTerminal]_vars

\* ------------------------------------------------------------------------
\* Specification of renderDiagram over its inputs
\* ------------------------------------------------------------------------
InitRender ==
  /\ ChatInit
  /\ TerminalIdle
  /\ rdData \in DiagramInputs
  /\ rdResult = Pending

Render ==
  /\ rdResult = Pending
  /\ rdResult' = renderDiagram(rdData)
  /\ UNCHANGED <<chatVars, tcVars, rdData>>

NextRender == Render

SpecRender == InitRender /\ [][NextRender]_vars

\* ------------------------------------------------------------------------
\* Vocabulary of the properties
\* ------------------------------------------------------------------------
Turns == 1..Len(turns)

\* The turn ran lines 165-194.
Classified(t) == turns[t].classified > 0

\* What the model message of turn t shows, the loading indicator aside.
Displayed(t) ==
  SelectSeq(ElementOf(chat, turns[t].msg).children, LAMBDA n : n # Loading)

\* The value the reply is classified on: that of the whole buffer when it
\* parses, else that of the fenced block when there is one and it parses.
ParsedValue(buffer) ==
  IF JSONParse(buffer).ok THEN JSONParse(buffer).value
  ELSE IF FenceMatch(buffer).found /\ JSONParse(FenceMatch(buffer).group).ok
  THEN JSONParse(FenceMatch(buffer).group).value
  ELSE Null

HasField(v, k) == v.t = "object" /\ k \in DOMAIN v.v

\* The shape {action: "generate_image", prompt: string}.
ImageShape(v) ==
  /\ StrictEqStr(Get(v, "action"), <<"generate_image">>)
  /\ Get(v, "prompt").t = "string"

HasDiagramNode(t) ==
  \E i \in 1..Len(Displayed(t)) : Displayed(t)[i].tag = "div"

\* ---- properties of handleFormSubmit --------------------------------------

\* C1 (fallback safety): when a completed stream is classified neither as an
\* image directive nor as a diagram, the model message stays in the chat and
\* shows one paragraph holding the whole accumulated buffer, which is the
\* concatenation of the fragments; a stream of no fragment shows no text.
C1_FallbackSafety ==
  \A t \in Turns :
    (turns[t].pc = "done" /\ turns[t].caught = "none"
       /\ turns[t].outcome = "text")
    => /\ InChat(chat, turns[t].msg)
       /\ turns[t].fullResponse = Flatten(turns[t].frags)
       /\ \/ Displayed(t) = <<P(turns[t].fullResponse)>>
          \/ turns[t].frags = << >> /\ Displayed(t) = << >>

\* C1 witness: a reply that parsed as JSON, matched neither shape and was
\* rendered again as text after its paragraph had been removed.
C1_Witness ==
  \E t \in Turns :
    /\ turns[t].pc = "done" /\ turns[t].outcome = "text"
    /\ Truthy(ParsedValue(turns[t].fullResponse))
    /\ Len(turns[t].frags) >= 2

\* C2 (classifier totality): the step after the stream ends in one of the
\* three outcomes and never throws into the catch block that retracts the
\* message.
C2_ClassifierTotality ==
  \A t \in Turns :
    Classified(t)
    => /\ turns[t].caught # "fault"
       /\ turns[t].outcome \in {"text", "image", "diagram"}
       /\ InChat(chat, turns[t].msg)

\* C3 (image directive): a parsed value with action "generate_image" and a
\* string prompt is classified as an image directive carrying that prompt,
\* also when it has components and connections; a value whose prompt is not
\* a string is not classified as an image directive.
C3_ImageDirective ==
  \A t \in Turns :
    Classified(t)
    => LET v == ParsedValue(turns[t].fullResponse)
       IN /\ ImageShape(v)
             => /\ turns[t].outcome = "image"
                /\ turns[t].imagePrompt = Get(v, "prompt")
          /\ Get(v, "prompt").t # "string" => turns[t].outcome # "image"

\* C4 as stated (diagram classification): a parsed value that is not an
\* image directive and has a components field and a connections field,
\* whatever their values, is classified as a diagram.
C4_AnyFieldValues ==
  \A t \in Turns :
    Classified(t)
    => LET v == ParsedValue(turns[t].fullResponse)
       IN (~ImageShape(v) /\ HasField(v, "components")
             /\ HasField(v, "connections"))
          => turns[t].outcome = "diagram"

\* C4 amended: a parsed value that is not handled as an image directive and
\* whose components and connections are both truthy is classified as a
\* diagram and renderDiagram runs on it (its node is shown, or its exception
\* is caught); the value is that of the whole buffer when that parses and of
\* the fenced block otherwise.
C4_TruthyFields ==
  \A t \in Turns :
    Classified(t)
    => LET v == ParsedValue(turns[t].fullResponse)
       IN (turns[t].outcome # "image" /\ Truthy(v)
             /\ Truthy(Get(v, "components"))
             /\ Truthy(Get(v, "connections")))
          => /\ turns[t].outcome = "diagram"
             /\ \/ turns[t].caught = "fault"
                \/ /\ InChat(chat, turns[t].msg)
                   /\ Displayed(t) = <<renderDiagram(v).node>>

\* C4 witness: a diagram taken from a fenced block after the whole buffer
\* failed to parse.
C4_Witness ==
  \E t \in Turns :
    /\ Classified(t) /\ turns[t].outcome = "diagram"
    /\ turns[t].caught = "none"
    /\ ~JSONParse(turns[t].fullResponse).ok
    /\ HasDiagramNode(t)

\* C5 (stream aggregation): after every fragment the accumulator is the
\* concatenation of the fragments received and the model message shows
\* exactly that text; nothing is classified before the end of the stream,
\* and at the end the final accumulator is classified exactly once.
C5_StreamAggregation ==
  \A t \in Turns :
    /\ turns[t].pc # "awaitStream"
         => turns[t].fullResponse = Flatten(turns[t].frags)
    /\ (turns[t].pc = "streaming" /\ turns[t].frags # << >>)
         => ElementOf(chat, turns[t].msg).children
              = <<P(Flatten(turns[t].frags))>>
    /\ turns[t].pc \in {"awaitStream", "streaming"}
         => /\ turns[t].classified = 0
            /\ turns[t].outcome = "pending"
            /\ Displayed(t) \in {<< >>, <<P(turns[t].fullResponse)>>}
    /\ turns[t].caught = "transport" => turns[t].classified = 0
    /\ (turns[t].pc = "awaitImage"
          \/ (turns[t].pc = "done" /\ turns[t].caught # "transport"))
         => /\ turns[t].classified = 1
            /\ turns[t].classifiedOn = Flatten(turns[t].frags)

\* C5 witness: a stream of two non-empty fragments that has ended and been
\* classified.
C5_Witness ==
  \E t \in Turns :
    /\ turns[t].pc = "done" /\ turns[t].classified = 1
    /\ Len(turns[t].frags) >= 2
    /\ turns[t].frags[1] # << >> /\ turns[t].frags[2] # << >>

\* C6 (transport error): after a transport error the in-progress message is
\* gone from the chat, the turn has left exactly one failure notice, and
\* whenever no turn is in flight the three controls are enabled.
C6_TransportError ==
  /\ \A t \in Turns :
       turns[t].caught = "transport"
       => /\ turns[t].pc = "done"
          /\ ~InChat(chat, turns[t].msg)
          /\ Cardinality({i \in 1..Len(chat) :
                            chat[i].turn = t /\ chat[i].sender = "model"}) = 1
          /\ \A i \in 1..Len(chat) :
               (chat[i].turn = t /\ chat[i].sender = "model")
               => /\ chat[i].style = "error"
                  /\ chat[i].children = <<P(ErrorRequest)>>
  /\ (\A t \in Turns : turns[t].pc = "done")
       => (~form.promptInput /\ ~form.formButton /\ ~form.fileInput)

\* C6 witness: the transport failed after partial text had been shown.
C6_Witness ==
  \E t \in Turns :
    /\ turns[t].caught = "transport"
    /\ turns[t].frags # << >> /\ turns[t].frags[1] # << >>

\* C7 (single turn in flight): at most one turn is outstanding; while one is,
\* the prompt input, the submit button and the file input are disabled; an
\* image is requested only after the stream has ended and been classified as
\* an image directive.
C7_SingleTurn ==
  /\ Cardinality({t \in Turns : turns[t].pc # "done"}) <= 1
  /\ (\E t \in Turns : turns[t].pc # "done")
       => (form.promptInput /\ form.formButton /\ form.fileInput)
  /\ \A t \in Turns :
       turns[t].pc = "awaitImage"
       => /\ turns[t].classified = 1
          /\ turns[t].outcome = "image"
          /\ turns[t].classifiedOn = turns[t].fullResponse

\* C7 witness: a second turn waits for its image after the first has ended.
C7_Witness ==
  /\ Len(turns) = 2
  /\ turns[1].pc = "done"
  /\ turns[2].pc = "awaitImage"

\* ---- properties of renderDiagram and getTerminalCoords --------------------
Lines(svg) == {i \in 1..Len(svg) : svg[i].tag = "line"}
Groups(svg) == {i \in 1..Len(svg) : svg[i].tag = "g"}

KnownKind(component) ==
  /\ Get(component, "type").t = "string"
  /\ Len(Get(component, "type").v) = 1
  /\ Get(component, "type").v[1] \in ComponentTypes

\* The text of an endpoint before its first dot.
BeforeDot(s) ==
  IF \E i \in 1..Len(s) : s[i] = Dot
  THEN SubSeq(s, 1, (CHOOSE i \in 1..Len(s) :
                       s[i] = Dot /\ \A k \in 1..(i - 1) : s[k] # Dot) - 1)
  ELSE s

\* The components of the diagram that an endpoint names.
NamedBy(data, endpoint) ==
  {k \in 1..Len(Get(data, "components").v) :
     Get(Get(data, "components").v[k], "id") = Str(BeforeDot(endpoint.v))}

EndpointValid(data, endpoint) ==
  /\ NamedBy(data, endpoint) # {}
  /\ \A k \in NamedBy(data, endpoint) :
       KnownKind(Get(data, "components").v[k])

ConnectionValid(data, k) ==
  /\ EndpointValid(data, Get(Get(data, "connections").v[k], "from"))
  /\ EndpointValid(data, Get(Get(data, "connections").v[k], "to"))

ConnectionDangling(data, k) ==
  \/ NamedBy(data, Get(Get(data, "connections").v[k], "from")) = {}
  \/ NamedBy(data, Get(Get(data, "connections").v[k], "to")) = {}

ConnectionIndices(data) == 1..Len(Get(data, "connections").v)

\* C8 (draw order): the children of the svg are first the wires, in the
\* order of their connections and at most one per connection, then one
\* group per component, in the order of the components.
C8_DrawOrder ==
  rdResult # Pending
  => /\ ~rdResult.threw
     /\ LET svg == rdResult.node.svg
            components == Get(rdData, "components").v
            n == Cardinality(Lines(svg))
        IN /\ Len(svg) = n + Len(components)
           /\ \A i \in 1..n :
                /\ svg[i].tag = "line"
                /\ svg[i].src \in ConnectionIndices(rdData)
           /\ \A i, j \in 1..n : i < j => svg[i].src < svg[j].src
           /\ \A k \in 1..Len(components) :
                /\ svg[n + k].tag = "g"
                /\ svg[n + k].src = k
                /\ svg[n + k].translate = <<Get(components[k], "x"),
                                            Get(components[k], "y")>>
                /\ svg[n + k].label = Get(components[k], "label")

\* C8 witness: a rendered diagram of two wires and two components.
C8_Witness ==
  /\ rdResult # Pending
  /\ ~rdResult.threw
  /\ Cardinality(Lines(rdResult.node.svg)) = 2
  /\ Cardinality(Groups(rdResult.node.svg)) = 2

\* Every connection either joins two existing components of known kind or
\* names a component that does not exist.
ValidOrDangling(data) ==
  \A k \in ConnectionIndices(data) :
    ConnectionValid(data, k) \/ ConnectionDangling(data, k)

\* C9 (dangling references): when every connection is valid or dangling,
\* renderDiagram does not throw, draws a wire for exactly the valid
\* connections and a group for every component.
C9_DanglingTolerance ==
  (rdResult # Pending /\ ValidOrDangling(rdData))
  => /\ ~rdResult.threw
     /\ {rdResult.node.svg[i].src : i \in Lines(rdResult.node.svg)}
          = {k \in ConnectionIndices(rdData) : ConnectionValid(rdData, k)}
     /\ Cardinality(Lines(rdResult.node.svg))
          = Cardinality({k \in ConnectionIndices(rdData) :
                           ConnectionValid(rdData, k)})
     /\ Cardinality(Groups(rdResult.node.svg))
          = Len(Get(rdData, "components").v)

\* C9 witness: a rendered diagram with a valid and a dangling connection.
C9_Witness ==
  /\ rdResult # Pending
  /\ ValidOrDangling(rdData)
  /\ \E k \in ConnectionIndices(rdData) : ConnectionValid(rdData, k)
  /\ \E k \in ConnectionIndices(rdData) : ConnectionDangling(rdData, k)
  /\ Len(Get(rdData, "components").v) = 2

\* The terminal names the table of kinds lists for a kind.
ListedNames(kind) ==
  CASE kind = "battery" -> {<<"positive">>, <<"negative">>}
    [] kind = "resistor" -> {<<"in">>, <<"out">>}
    [] kind = "led" -> {<<"anode">>, <<"cathode">>}
    [] kind = "switch" -> {<<"in">>, <<"out">>}
    [] kind = "transformer" -> {<<"primary">>, <<"secondary">>}
    [] kind = "breaker" -> {<<"in">>, <<"out">>}
    [] OTHER -> {}

SignLength(s) == IF Len(s) >= 1 /\ s[1] \in {"-", "+"} THEN 1 ELSE 0

\* A signed numeric literal: sign, digits, and perhaps a dot and digits.
IsNumericLiteral(s) ==
  LET i == SignLength(s) + 1
      n == DigitRun(s, i)
  IN /\ n >= 1
     /\ \/ i + n > Len(s)
        \/ /\ s[i + n] = Dot
           /\ DigitRun(s, i + n + 1) >= 1
           /\ i + n + DigitRun(s, i + n + 1) = Len(s)

StartsWithNumber(s) == DigitRun(s, SignLength(s) + 1) >= 1

\* The terminal name is a non-empty string that the kind of the component
\* does not list.
Unlisted(component, terminal) ==
  /\ terminal.t = "string"
  /\ terminal.v # << >>
  /\ IF StrictEqStr(Get(component, "type"), <<"bus">>)
     THEN ~IsNumericLiteral(terminal.v)
     ELSE ~(KnownKind(component)
            /\ terminal.v \in ListedNames(Get(component, "type").v[1]))

DefaultTerminal(component) ==
  LET x == Get(component, "x").v
      y == Get(component, "y").v
      kind == Get(component, "type").v[1]
  IN CASE kind = "battery" -> Point(Num(x), Num(y + 20))
       [] kind = "resistor" -> Point(Num(x + 30), Num(y))
       [] kind = "led" -> Point(Num(x + 25), Num(y))
       [] kind = "switch" -> Point(Num(x + 30), Num(y))
       [] kind = "generator" -> Point(Num(x), Num(y + 30))
       [] kind = "transformer" -> Point(Num(x), Num(y + 30))
       [] kind = "breaker" -> Point(Num(x + 25), Num(y))
       [] kind = "load" -> Point(Num(x), Num(y - 25))
       [] kind = "bus" -> Point(Num(x), Num(y))

\* The point is where an unlisted name resolves to: the default terminal; on
\* a bus the point (x, y), moved along the bar when the name starts with a
\* number.
AtDefault(component, terminal, point) ==
  IF StrictEqStr(Get(component, "type"), <<"bus">>)
  THEN /\ point.t = "object"
       /\ point.v.y = Get(component, "y")
       /\ ~StartsWithNumber(terminal.v) => point = DefaultTerminal(component)
  ELSE point = DefaultTerminal(component)

IsBus(component) == StrictEqStr(Get(component, "type"), <<"bus">>)

\* The value of a signed numeric literal.
LiteralValue(s) ==
  LET i == SignLength(s) + 1
      n == DigitRun(s, i)
      m == IF i + n <= Len(s) THEN DigitRun(s, i + n + 1) ELSE 0
      mant == DigitsValue(s, i, n) * Pow10(m) + DigitsValue(s, i + n + 1, m)
  IN Norm(IF SignLength(s) = 1 /\ s[1] = "-" THEN 0 - mant ELSE mant, m)

\* The text does not start with a number (sign, digits, fraction).
NotParseable(s) ==
  LET i == SignLength(s) + 1
  IN /\ DigitRun(s, i) = 0
     /\ ~(i <= Len(s) /\ s[i] = Dot /\ DigitRun(s, i + 1) >= 1)

\* Where the one wire of the drawn probe starts.
WireStart(canvas) == Point(canvas.node.svg[1].x1, canvas.node.svg[1].y1)

\* C11 as stated (bus endpoint resolution): for a connection endpoint
\* "<id>.<t>" whose <id> names a bus at (x, y), with <t> the whole text
\* after the first dot, the wire is drawn from (x + value(<t>), y) when <t>
\* is a signed numeric literal, integer or with a fractional part, and from
\* (x, y) when <t> is not parseable as a number.
C11_BusEndpoint ==
  (IsBus(tcComponent) /\ tcTerminal.t = "string" /\ tcCanvas # Pending)
  => /\ ~tcCanvas.threw
     /\ Cardinality(Lines(tcCanvas.node.svg)) = 1
     /\ IsNumericLiteral(tcTerminal.v)
          => WireStart(tcCanvas)
               = Point(JsAdd(Get(tcComponent, "x"),
                             LiteralValue(tcTerminal.v)),
                       Get(tcComponent, "y"))
     /\ NotParseable(tcTerminal.v)
          => WireStart(tcCanvas)
               = Point(Get(tcComponent, "x"), Get(tcComponent, "y"))

====
